---- MODULE Spec2Model ----
(***************************************************************************)
(* graphql-upload-nextjs: the multipart upload orchestrator uploadProcess  *)
(* of src/src/index.ts, its per-file binding task processUpload and the    *)
(* helpers they call, as a state machine over one request.                 *)
(*                                                                         *)
(* JavaScript runs each synchronous section to completion: a binding task  *)
(* only advances at one of its awaits, and never while the orchestrator is *)
(* inside its synchronous dispatch loop (pc = "loop").                     *)
(***************************************************************************)
EXTENDS Integers, Sequences, FiniteSets, TLC

\* ------------------------------------------------------------------ bounds

\* settings.maxFileSize of the modelled request (bytes; the caller's setting)
MaxFileSize == 1
\* the number of resolve and reject calls made on one Upload handle
MaxCalls == 4

\* the longest buffered file content, in bytes
MaxBufferLen == 2

\* the number of createReadStream invocations on one descriptor
MaxStreams == 3

\* the most entries a form data has in a call of extractFiles
MaxEntries == 3

\* how many subsequent results an incremental engine answer may carry
MaxSubsequent == 2

\* ------------------------------------------------------------------ domains

\* multipart field names that may carry a file part, in Object.keys order
KeyOrder == <<"0", "1">>
FieldKeys == {KeyOrder[n] : n \in 1..Len(KeyOrder)}

\* settings.allowedTypes of the modelled request
AllowedTypes == <<"image/png", "text/plain">>

FileNames == {"", "a.txt"}
DeclaredTypes == {"", "image/png", "application/octet-stream"}
\* declared sizes: empty, at the ceiling, one byte over it
FileSizes == {0, MaxFileSize, MaxFileSize + 1}

\* the metadata of a form-data file part (FormDataFile)
FormDataFile == [name : FileNames, size : FileSizes, type : DeclaredTypes]
NoFile == [name |-> "", size |-> 0, type |-> ""]

\* what the bytes of a file part are to the two sniffers: the signature
\* fileTypeFromBuffer finds ("none" when it finds none) and isText's verdict
Contents ==
    { [sig |-> "image/png", text |-> FALSE],
      [sig |-> "application/xml", text |-> TRUE],
      [sig |-> "none", text |-> TRUE],
      [sig |-> "none", text |-> FALSE] }
NoContent == [sig |-> "none", text |-> FALSE]

\* dotted variable paths of the map, as their segments
PathFile == <<"variables", "file">>
PathDoc == <<"variables", "input", "doc">>
PathLists == { <<>>, <<PathFile>>, <<PathDoc>>, <<PathFile, PathDoc>> }
VarKeys == {"file", "doc"}

\* values of operations.variables: a falsy JSON value (null, 0, "", false), a
\* truthy one, and, after binding, an Upload handle
NoDescriptor ==
    [fileName |-> "", fileSize |-> 0, mimeType |-> "", encoding |-> "",
     part |-> "", content |-> NoContent]
NullValue == [kind |-> "null", file |-> NoDescriptor]
StrValue == [kind |-> "string", file |-> NoDescriptor]
InitValues == {NullValue, StrValue}

\* the text of a form field, by what JSON.parse makes of it
MapObjects == UNION { [S -> PathLists] : S \in SUBSET FieldKeys }
VarObjects == UNION { [S -> InitValues] : S \in SUBSET VarKeys }
NoVars == [k \in {} |-> NullValue]
OperationsObjects ==
    { [query |-> "q", hasVars |-> TRUE, variables |-> v] : v \in VarObjects }
        \cup { [query |-> "q", hasVars |-> FALSE, variables |-> NoVars] }
NoOperations == [query |-> "", hasVars |-> FALSE, variables |-> NoVars]
BadFieldKinds == {"absent", "unparseable", "primitive", "jsonnull"}
Field(kind, map, ops) == [kind |-> kind, map |-> map, ops |-> ops]
NoMap == [k \in {} |-> <<>>]
BadFields == { Field(kind, NoMap, NoOperations) : kind \in BadFieldKinds }
MapFields == BadFields \cup { Field("object", m, NoOperations) : m \in MapObjects }
OperationsFields == BadFields \cup { Field("object", NoMap, o) : o \in OperationsObjects }

\* the entries of the form data under one field name: none, a text value, a file
EntryChoices(k) ==
    { <<>>, << [key |-> k, isFile |-> FALSE, file |-> NoFile] >> }
        \cup { << [key |-> k, isFile |-> TRUE, file |-> f] >> : f \in FormDataFile }
\* a field name the map does not name carries no part, a text value or one
\* (unused) file part
SpareFile == [name |-> "a.txt", size |-> MaxFileSize, type |-> "image/png"]
PartChoices(m, k) ==
    IF k \in DOMAIN m.map THEN EntryChoices(k)
    ELSE { <<>>, << [key |-> k, isFile |-> FALSE, file |-> NoFile] >>,
           << [key |-> k, isFile |-> TRUE, file |-> SpareFile] >> }
NoForm == [map |-> Field("absent", NoMap, NoOperations),
           operations |-> Field("absent", NoMap, NoOperations),
           entries |-> <<>>]

\* errors, by the message they carry
Err(kind, mime) ==
    [kind |-> kind, mime |-> mime,
     allowed |-> IF kind = "type" THEN AllowedTypes ELSE <<>>]
NoErr == Err("none", "")

\* engine results
InitialResult == "initial"
ResultIds == {"r1", "r2"}
SingleResults == { [data |-> "d1", errors |-> "undefined"], [data |-> "null", errors |-> "e1"] }
NoSingle == [data |-> "", errors |-> ""]

\* responses: {error}, {data, errors} or {results}
NoResponse == [shape |-> "none", error |-> NoErr, prefixed |-> FALSE,
               single |-> NoSingle, results |-> <<>>]

RECURSIVE SeqsUpTo(_, _)
SeqsUpTo(S, n) ==
    IF n = 0 THEN { <<>> }
    ELSE LET shorter == SeqsUpTo(S, n - 1)
         IN shorter \cup { Append(s, x) : s \in shorter, x \in S }

VARIABLES
    pc,             \* where uploadProcess stands
    outcome,        \* "pending", "returned" (a response) or "raised" (to the caller)
    response,       \* the body handed to NextResponse.json
    formData,       \* request.formData()
    files,          \* extractFiles(formData)
    map,            \* the parsed 'map' field
    operations,     \* the parsed 'operations' field; variables mutated in place
    i,              \* index of the dispatch loop into Object.keys(map)
    tasks,          \* the processUpload call per map key
    firstRejection, \* what Promise.all(uploadPromises) rejects with
    writes,         \* how often operations.variables was assigned
    engineCalls,    \* how often server.executeOperation was invoked
    passedVars,     \* the variables it was invoked with
    cleaned,        \* the cleaning pass has run
    emitted,        \* initialResult and subsequentResults of an incremental answer
    drainFails,     \* subsequentResults raises after its last result
    remaining,      \* what the drain has not pulled yet
    results,        \* the drain's array
    engineBody,     \* response.body of server.executeOperation, or that it raised
    handle,         \* an Upload handle in the hands of a caller
    calls,          \* the resolve and reject calls made on it
    buffer,         \* the bytes processUpload buffered for one file
    streams,        \* the streams createReadStream has handed out for it
    call            \* the last call of an exported helper, with its outcome

vars == <<pc, outcome, response, formData, files, map, operations, i, tasks,
          firstRejection, writes, engineCalls, passedVars, cleaned, emitted,
          drainFails, remaining, results, engineBody, handle, calls,
          buffer, streams, call>>

\* the variables of the stream helpers and of the helper calls
libVars == <<buffer, streams, call>>

\* the variables of the Upload handle
handleVars == <<handle, calls>>

\* the variables of one request
requestVars == <<pc, outcome, response, formData, files, map, operations, i, tasks,
                 firstRejection, writes, engineCalls, passedVars, cleaned, emitted,
                 drainFails, remaining, results, engineBody>>

\* new Upload(): no file, a pending promise
NewUpload ==
    [hasFile |-> FALSE, file |-> NoDescriptor, state |-> "pending",
     value |-> NoDescriptor, reason |-> ""]

NoBody == [kind |-> "none", single |-> NoSingle]

NoTask == [pc |-> "none", varName |-> "", file |-> NoFile, content |-> NoContent,
           mimeType |-> "", error |-> NoErr]

\* no helper has been called
NoCall == [fn |-> "none", input |-> <<>>, outcome |-> <<>>]

\* uploadProcess has been called and has not run yet
InitRequest ==
    /\ pc = "start"
    /\ outcome = "pending"
    /\ response = NoResponse
    /\ formData = NoForm
    /\ files = [k \in {} |-> NoFile]
    /\ map = NoMap
    /\ operations = NoOperations
    /\ i = 1
    /\ tasks = [k \in FieldKeys |-> NoTask]
    /\ firstRejection = NoErr
    /\ writes = 0
    /\ engineCalls = 0
    /\ passedVars = NoVars
    /\ cleaned = FALSE
    /\ emitted = <<>>
    /\ drainFails = FALSE
    /\ remaining = <<>>
    /\ results = <<>>
    /\ engineBody = NoBody

Init ==
    /\ InitRequest
    /\ handle = NewUpload
    /\ calls = <<>>
    /\ buffer = <<>>
    /\ streams = <<>>
    /\ call = NoCall

\* ------------------------------------------------------------------ helpers

\* an extraction that keeps every entry of the form data, file or not
extractAllEntries(form) ==
    [k \in {form.entries[n].key : n \in DOMAIN form.entries} |->
        LET n == CHOOSE m \in DOMAIN form.entries : form.entries[m].key = k
        IN form.entries[n].file]

\* an extraction in which the first file entry of a field name wins
extractFirstFiles(form) ==
    LET fileAt == {n \in DOMAIN form.entries : form.entries[n].isFile}
    IN [k \in {form.entries[n].key : n \in fileAt} |->
           LET first == CHOOSE n \in fileAt :
                            /\ form.entries[n].key = k
                            /\ \A m \in fileAt : form.entries[m].key = k => n <= m
           IN form.entries[first].file]

\* extractFiles: the file-valued entries of the form data, by field name
RECURSIVE extractFilesFrom(_, _)
extractFilesFrom(entries, acc) ==
    IF entries = <<>> THEN acc
    ELSE LET e == Head(entries)
             next == IF e.isFile
                     THEN [k \in DOMAIN acc \cup {e.key} |->
                              IF k = e.key THEN e.file ELSE acc[k]]
                     ELSE acc
         IN extractFilesFrom(Tail(entries), next)

extractFiles(form) == extractFilesFrom(form.entries, [k \in {} |-> NoFile])

\* JSON.parse of a form field's text (formData.get yields null for an absent
\* field, and JSON.parse(null) is null)
JSONParse(input) ==
    CASE input.kind = "absent" -> [threw |-> FALSE, type |-> "object", isNull |-> TRUE]
      [] input.kind = "unparseable" -> [threw |-> TRUE, type |-> "", isNull |-> FALSE]
      [] input.kind = "primitive" -> [threw |-> FALSE, type |-> "number", isNull |-> FALSE]
      [] input.kind = "jsonnull" -> [threw |-> FALSE, type |-> "object", isNull |-> TRUE]
      [] OTHER -> [threw |-> FALSE, type |-> "object", isNull |-> FALSE]

\* sanitizeAndValidateJSON with the null check dropped
sanitizeWithoutNullCheck(input) ==
    LET result == JSONParse(input)
    IN IF result.threw \/ result.type # "object"
       THEN [ok |-> FALSE, error |-> Err("json", ""), value |-> input]
       ELSE [ok |-> TRUE, error |-> NoErr, value |-> input]

\* sanitizeAndValidateJSON letting its own 'Invalid JSON structure' through
sanitizeKeepingStructureError(input) ==
    LET result == JSONParse(input)
    IN IF result.threw
       THEN [ok |-> FALSE, error |-> Err("json", ""), value |-> input]
       ELSE IF result.type # "object" \/ result.isNull
       THEN [ok |-> FALSE, error |-> Err("structure", ""), value |-> input]
       ELSE [ok |-> TRUE, error |-> NoErr, value |-> input]

\* sanitizeAndValidateJSON: the parsed object, or Error('Invalid JSON input')
sanitizeAndValidateJSON(input) ==
    LET result == JSONParse(input)
    IN IF result.threw \/ result.type # "object" \/ result.isNull
       THEN [ok |-> FALSE, error |-> Err("json", ""), value |-> input]
       ELSE [ok |-> TRUE, error |-> NoErr, value |-> input]

\* Object.keys(map)
MapKeys(m) == SelectSeq(KeyOrder, LAMBDA k : k \in DOMAIN m)

\* the size check with the comparison turned around
FileTooSmall(file) == file.size < MaxFileSize

\* file.size > settings.maxFileSize
FileTooLarge(file) == file.size > MaxFileSize

\* the variable name taken from the last path of the entry
VariableNameOfLastPath(paths) ==
    LET pathSegment == paths[Len(paths)]
    IN pathSegment[Len(pathSegment)]

\* map[fileKey][0].split('.').slice(-1)[0]
VariableName(paths) ==
    LET pathSegment == paths[1]
    IN pathSegment[Len(pathSegment)]

\* a check of the file's name alone
InvalidFilePropertiesNameOnly(file) == file.name = ""

\* !file.name || !file.size || !file.type
InvalidFileProperties(file) == file.name = "" \/ file.size = 0 \/ file.type = ""

\* the MIME decision with the text heuristic asked first
EffectiveMimeTextFirst(declared, content) ==
    IF content.text THEN "text/plain"
    ELSE IF content.sig # "none" THEN content.sig
    ELSE declared

\* the MIME decision that trusts the declared type
EffectiveMimeDeclared(declared, content) == declared

\* the MIME type processUpload settles on
EffectiveMimeType(declared, content) ==
    IF content.sig # "none" THEN content.sig
    ELSE IF content.text THEN "text/plain"
    ELSE declared

\* allowedTypes.includes(mimeType)
TypeAllowed(mimeType) == \E n \in 1..Len(AllowedTypes) : AllowedTypes[n] = mimeType

\* a descriptor that carries the declared type and the buffer's length
DescriptorOfDeclared(part, file, mimeType, content) ==
    [fileName |-> file.name, fileSize |-> file.size, mimeType |-> file.type,
     encoding |-> "binary", part |-> part, content |-> content]

\* the descriptor upload.resolve is called with; createReadStream reads the
\* buffer of the part the task was called for
Descriptor(part, file, mimeType, content) ==
    [fileName |-> file.name, fileSize |-> file.size, mimeType |-> mimeType,
     encoding |-> "binary", part |-> part, content |-> content]

\* a resolved Upload handle
UploadValue(d) == [kind |-> "upload", file |-> d]

\* !operations.variables[key]
Falsy(v) == v.kind = "null"

\* the cleaning pass that deletes nothing
KeepVariables(v) == v

\* the cleaning pass: delete every key whose value is falsy
CleanVariables(v) == [k \in {x \in DOMAIN v : ~Falsy(v[x])} |-> v[k]]

\* the response of the size check
SizeErrorResponse ==
    [shape |-> "error", error |-> Err("size", ""), prefixed |-> FALSE,
     single |-> NoSingle, results |-> <<>>]

\* a catch block that lets a failed context resolution through to the caller
catchBlockRethrowing(error) ==
    IF error.kind = "context"
    THEN [outcome |-> "raised", response |-> NoResponse]
    ELSE [outcome |-> "returned",
          response |-> [shape |-> "error", error |-> error, prefixed |-> TRUE,
                        single |-> NoSingle, results |-> <<>>]]

\* the catch block of uploadProcess: {error: `Error processing upload: ...`}
catchBlock(error) ==
    [outcome |-> "returned",
     response |-> [shape |-> "error", error |-> error, prefixed |-> TRUE,
                   single |-> NoSingle, results |-> <<>>]]

\* a single-result response that drops the errors
SingleResponseDataOnly(r) ==
    [shape |-> "data", error |-> NoErr, prefixed |-> FALSE,
     single |-> [data |-> r.data, errors |-> "undefined"], results |-> <<>>]

SingleResponse(r) ==
    [shape |-> "data", error |-> NoErr, prefixed |-> FALSE, single |-> r, results |-> <<>>]

ResultsResponse(rs) ==
    [shape |-> "results", error |-> NoErr, prefixed |-> FALSE, single |-> NoSingle,
     results |-> rs]

\* a drain that puts the newest result first
DrainPushFront(rs, r) == <<r>> \o rs

\* results.push(result)
DrainPush(rs, r) == Append(rs, r)

\* ------------------------------------------------------------------ uploadProcess

\* a return statement, or the catch block's return
Finish(r) ==
    /\ pc' = "done"
    /\ outcome' = r.outcome
    /\ response' = r.response

Return(body) == Finish([outcome |-> "returned", response |-> body])

Throw(error) == Finish(catchBlock(error))

\* await request.formData(): the whole form, or a failure to read it
ReadFormData ==
    /\ pc = "start"
    /\ \/ /\ \E m \in MapFields, o \in OperationsFields :
                \E e0 \in PartChoices(m, KeyOrder[1]), e1 \in PartChoices(m, KeyOrder[2]) :
                    formData' = [map |-> m, operations |-> o, entries |-> e0 \o e1]
          /\ pc' = "extractFiles"
          /\ UNCHANGED <<outcome, response>>
       \/ /\ Throw(Err("formdata", ""))
          /\ UNCHANGED formData
    /\ UNCHANGED <<files, map, operations, i, tasks, firstRejection, writes,
                   engineCalls, passedVars, cleaned, emitted, drainFails,
                   remaining, results>>
    /\ UNCHANGED <<engineBody, handle, calls>>
    /\ UNCHANGED libVars

\* await extractFiles(formData)
ExtractFiles ==
    /\ pc = "extractFiles"
    /\ files' = extractFiles(formData)
    /\ pc' = "parse"
    /\ UNCHANGED <<outcome, response, formData, map, operations, i, tasks,
                   firstRejection, writes, engineCalls, passedVars, cleaned,
                   emitted, drainFails, remaining, results>>
    /\ UNCHANGED <<engineBody, handle, calls>>
    /\ UNCHANGED libVars

\* the two sanitizeAndValidateJSON calls, 'map' first
ParseEnvelope ==
    /\ pc = "parse"
    /\ LET m == sanitizeAndValidateJSON(formData.map)
           o == sanitizeAndValidateJSON(formData.operations)
       IN IF ~m.ok
          THEN Throw(m.error) /\ UNCHANGED <<map, operations>>
          ELSE IF ~o.ok
          THEN Throw(o.error) /\ map' = m.value.map /\ UNCHANGED operations
          ELSE /\ map' = m.value.map
               /\ operations' = o.value.ops
               /\ pc' = "loop"
               /\ UNCHANGED <<outcome, response>>
    /\ UNCHANGED <<formData, files, i, tasks, firstRejection, writes, engineCalls,
                   passedVars, cleaned, emitted, drainFails, remaining, results>>
    /\ UNCHANGED <<engineBody, handle, calls>>
    /\ UNCHANGED libVars

\* a binding task rejects: Promise.all rejects with the first rejection
Rejected(k, error) ==
    /\ tasks' = [tasks EXCEPT ![k].pc = "rejected", ![k].error = error]
    /\ firstRejection' = IF firstRejection = NoErr THEN error ELSE firstRejection

\* processUpload up to its first await: the check of the file's properties
processUploadCall(k, file, variableName) ==
    LET t == [NoTask EXCEPT !.varName = variableName, !.file = file]
    IN IF InvalidFileProperties(file)
       THEN /\ tasks' = [tasks EXCEPT ![k] = [t EXCEPT !.pc = "rejected",
                                                       !.error = Err("props", "")]]
            /\ firstRejection' =
                   IF firstRejection = NoErr THEN Err("props", "") ELSE firstRejection
       ELSE /\ tasks' = [tasks EXCEPT ![k] = [t EXCEPT !.pc = "stream"]]
            /\ UNCHANGED firstRejection

\* a loop round that dispatches the binding task before it checks the size
DispatchLoopCheckingAfter ==
    /\ pc = "loop"
    /\ i <= Len(MapKeys(map))
    /\ LET fileKey == MapKeys(map)[i]
       IN IF fileKey \notin DOMAIN files
          THEN /\ Throw(Err("missing", ""))
               /\ UNCHANGED <<i, tasks, firstRejection>>
          ELSE IF map[fileKey] = <<>>
          THEN /\ Throw(Err("nopath", ""))
               /\ UNCHANGED <<i, tasks, firstRejection>>
          ELSE /\ processUploadCall(fileKey, files[fileKey], VariableName(map[fileKey]))
               /\ IF FileTooLarge(files[fileKey])
                  THEN Return(SizeErrorResponse) /\ UNCHANGED i
                  ELSE i' = i + 1 /\ UNCHANGED <<pc, outcome, response>>
    /\ UNCHANGED <<formData, files, map, operations, writes, engineCalls,
                   passedVars, cleaned, emitted, drainFails, remaining, results>>
    /\ UNCHANGED <<engineBody, handle, calls>>
    /\ UNCHANGED libVars

\* one round of the loop over Object.keys(map)
DispatchLoop ==
    /\ pc = "loop"
    /\ i <= Len(MapKeys(map))
    /\ LET fileKey == MapKeys(map)[i]
       IN IF fileKey \notin DOMAIN files
          THEN \* file is undefined: reading file.size is a TypeError
               /\ Throw(Err("missing", ""))
               /\ UNCHANGED <<i, tasks, firstRejection>>
          ELSE IF FileTooLarge(files[fileKey])
          THEN /\ Return(SizeErrorResponse)
               /\ UNCHANGED <<i, tasks, firstRejection>>
          ELSE IF map[fileKey] = <<>>
          THEN \* map[fileKey][0] is undefined: calling split on it is a TypeError
               /\ Throw(Err("nopath", ""))
               /\ UNCHANGED <<i, tasks, firstRejection>>
          ELSE /\ processUploadCall(fileKey, files[fileKey], VariableName(map[fileKey]))
               /\ i' = i + 1
               /\ UNCHANGED <<pc, outcome, response>>
    /\ UNCHANGED <<formData, files, map, operations, writes, engineCalls,
                   passedVars, cleaned, emitted, drainFails, remaining, results>>
    /\ UNCHANGED <<engineBody, handle, calls>>
    /\ UNCHANGED libVars

\* the loop is over: await Promise.all(uploadPromises)
AwaitAll ==
    /\ pc = "loop"
    /\ i > Len(MapKeys(map))
    /\ pc' = "join"
    /\ UNCHANGED <<outcome, response, formData, files, map, operations, i, tasks,
                   firstRejection, writes, engineCalls, passedVars, cleaned,
                   emitted, drainFails, remaining, results>>
    /\ UNCHANGED <<engineBody, handle, calls>>
    /\ UNCHANGED libVars

\* ------------------------------------------------------------------ processUpload

\* await file.stream()
OpenStream(k) ==
    /\ pc # "loop"
    /\ tasks[k].pc = "stream"
    /\ tasks' = [tasks EXCEPT ![k].pc = "buffer"]
    /\ UNCHANGED <<pc, outcome, response, formData, files, map, operations, i,
                   firstRejection, writes, engineCalls, passedVars, cleaned,
                   emitted, drainFails, remaining, results>>
    /\ UNCHANGED <<engineBody, handle, calls>>
    /\ UNCHANGED libVars

\* await streamToBuffer(stream): the bytes arrive, or the stream fails
ReadBuffer(k) ==
    /\ pc # "loop"
    /\ tasks[k].pc = "buffer"
    /\ \/ /\ \E c \in Contents :
                tasks' = [tasks EXCEPT ![k].pc = "sniff", ![k].content = c]
          /\ UNCHANGED firstRejection
       \/ Rejected(k, Err("stream", ""))
    /\ UNCHANGED <<pc, outcome, response, formData, files, map, operations, i,
                   writes, engineCalls, passedVars, cleaned, emitted, drainFails,
                   remaining, results>>
    /\ UNCHANGED <<engineBody, handle, calls>>
    /\ UNCHANGED libVars

\* a binding that replaces the variables by the one it writes
BindUploadReplacingVariables(k) ==
    /\ pc # "loop"
    /\ tasks[k].pc = "sniff"
    /\ LET t == tasks[k]
           mimeType == EffectiveMimeType(t.file.type, t.content)
           upload == UploadValue(Descriptor(k, t.file, mimeType, t.content))
       IN IF ~TypeAllowed(mimeType)
          THEN /\ Rejected(k, Err("type", mimeType))
               /\ UNCHANGED <<operations, writes>>
          ELSE IF ~operations.hasVars
          THEN /\ Rejected(k, Err("novars", ""))
               /\ UNCHANGED <<operations, writes>>
          ELSE /\ tasks' = [tasks EXCEPT ![k].pc = "bound", ![k].mimeType = mimeType]
               /\ operations' =
                      [operations EXCEPT !.variables = [v \in {t.varName} |-> upload]]
               /\ writes' = writes + 1
               /\ UNCHANGED firstRejection
    /\ UNCHANGED <<pc, outcome, response, formData, files, map, i, engineCalls,
                   passedVars, cleaned, emitted, drainFails, remaining, results>>
    /\ UNCHANGED <<engineBody, handle, calls>>
    /\ UNCHANGED libVars

\* after await fileTypeFromBuffer(buffer): the MIME decision, the allow-list
\* check, and the handle written into operations.variables
BindUpload(k) ==
    /\ pc # "loop"
    /\ tasks[k].pc = "sniff"
    /\ LET t == tasks[k]
           mimeType == EffectiveMimeType(t.file.type, t.content)
           upload == UploadValue(Descriptor(k, t.file, mimeType, t.content))
       IN IF ~TypeAllowed(mimeType)
          THEN /\ tasks' = [tasks EXCEPT ![k].pc = "rejected", ![k].mimeType = mimeType,
                                         ![k].error = Err("type", mimeType)]
               /\ firstRejection' =
                      IF firstRejection = NoErr THEN Err("type", mimeType)
                      ELSE firstRejection
               /\ UNCHANGED <<operations, writes>>
          ELSE IF ~operations.hasVars
          THEN \* operations.variables is undefined: assigning into it is a TypeError
               /\ tasks' = [tasks EXCEPT ![k].pc = "rejected", ![k].mimeType = mimeType,
                                         ![k].error = Err("novars", "")]
               /\ firstRejection' =
                      IF firstRejection = NoErr THEN Err("novars", "")
                      ELSE firstRejection
               /\ UNCHANGED <<operations, writes>>
          ELSE /\ tasks' = [tasks EXCEPT ![k].pc = "bound", ![k].mimeType = mimeType]
               /\ operations' =
                      [operations EXCEPT !.variables =
                          [v \in DOMAIN operations.variables \cup {t.varName} |->
                              IF v = t.varName THEN upload
                              ELSE operations.variables[v]]]
               /\ writes' = writes + 1
               /\ UNCHANGED firstRejection
    /\ UNCHANGED <<pc, outcome, response, formData, files, map, i, engineCalls,
                   passedVars, cleaned, emitted, drainFails, remaining, results>>
    /\ UNCHANGED <<engineBody, handle, calls>>
    /\ UNCHANGED libVars

\* ------------------------------------------------------------------ join to response

\* Promise.all resumes without waiting for the tasks
JoinEager ==
    /\ pc = "join"
    /\ firstRejection = NoErr
    /\ pc' = "clean"
    /\ UNCHANGED <<outcome, response, formData, files, map, operations, i, tasks,
                   firstRejection, writes, engineCalls, passedVars, cleaned,
                   emitted, drainFails, remaining, results>>
    /\ UNCHANGED <<engineBody, handle, calls>>
    /\ UNCHANGED libVars

\* a join that waits for every task to settle and ignores the rejections
JoinAllSettled ==
    /\ pc = "join"
    /\ \A k \in FieldKeys : tasks[k].pc \in {"none", "bound", "rejected"}
    /\ pc' = "clean"
    /\ UNCHANGED <<outcome, response, formData, files, map, operations, i, tasks,
                   firstRejection, writes, engineCalls, passedVars, cleaned,
                   emitted, drainFails, remaining, results>>
    /\ UNCHANGED <<engineBody, handle, calls>>
    /\ UNCHANGED libVars

\* Promise.all(uploadPromises) fulfils: every dispatched task has fulfilled
JoinAll ==
    /\ pc = "join"
    /\ \A k \in FieldKeys : tasks[k].pc \in {"none", "bound"}
    /\ pc' = "clean"
    /\ UNCHANGED <<outcome, response, formData, files, map, operations, i, tasks,
                   firstRejection, writes, engineCalls, passedVars, cleaned,
                   emitted, drainFails, remaining, results>>
    /\ UNCHANGED <<engineBody, handle, calls>>
    /\ UNCHANGED libVars

\* a join that keeps waiting after a rejection
JoinRejectedIgnored ==
    /\ pc = "join"
    /\ firstRejection # NoErr
    /\ UNCHANGED vars

\* Promise.all(uploadPromises) rejects with the first rejection
JoinRejected ==
    /\ pc = "join"
    /\ firstRejection # NoErr
    /\ Throw(firstRejection)
    /\ UNCHANGED <<formData, files, map, operations, i, tasks, firstRejection,
                   writes, engineCalls, passedVars, cleaned, emitted, drainFails,
                   remaining, results>>
    /\ UNCHANGED <<engineBody, handle, calls>>
    /\ UNCHANGED libVars

\* the loop that deletes the falsy variables
Clean ==
    /\ pc = "clean"
    /\ operations' = [operations EXCEPT !.variables = CleanVariables(operations.variables)]
    /\ cleaned' = TRUE
    /\ pc' = "context"
    /\ UNCHANGED <<outcome, response, formData, files, map, i, tasks, firstRejection,
                   writes, engineCalls, passedVars, emitted, drainFails, remaining,
                   results>>
    /\ UNCHANGED <<engineBody, handle, calls>>
    /\ UNCHANGED libVars

\* await context, then the call of server.executeOperation
ExecuteOperation ==
    /\ pc = "context"
    /\ \/ /\ engineCalls' = engineCalls + 1
          /\ passedVars' = operations.variables
          /\ pc' = "executing"
          /\ UNCHANGED <<outcome, response>>
       \/ /\ Throw(Err("context", ""))
          /\ UNCHANGED <<engineCalls, passedVars>>
    /\ UNCHANGED <<formData, files, map, operations, i, tasks, firstRejection,
                   writes, cleaned, emitted, drainFails, remaining, results>>
    /\ UNCHANGED <<engineBody, handle, calls>>
    /\ UNCHANGED libVars

\* the engine answers with a single result
EngineSingle ==
    /\ pc = "executing"
    /\ \E r \in SingleResults :
          /\ engineBody' = [kind |-> "single", single |-> r]
          /\ Return(SingleResponse(r))
    /\ UNCHANGED <<formData, files, map, operations, i, tasks, firstRejection,
                   writes, engineCalls, passedVars, cleaned, emitted, drainFails,
                   remaining, results>>
    /\ UNCHANGED handleVars
    /\ UNCHANGED libVars

\* the engine answers with an incremental result
EngineIncremental ==
    /\ pc = "executing"
    /\ \E subsequentResults \in SeqsUpTo(ResultIds, MaxSubsequent), fails \in BOOLEAN :
          /\ emitted' = <<InitialResult>> \o subsequentResults
          /\ remaining' = subsequentResults
          /\ results' = <<InitialResult>>
          /\ drainFails' = fails
    /\ engineBody' = [kind |-> "incremental", single |-> NoSingle]
    /\ pc' = "drain"
    /\ UNCHANGED <<outcome, response, formData, files, map, operations, i, tasks,
                   firstRejection, writes, engineCalls, passedVars, cleaned>>
    /\ UNCHANGED handleVars
    /\ UNCHANGED libVars

\* server.executeOperation raises
EngineRaises ==
    /\ pc = "executing"
    /\ Throw(Err("engine", ""))
    /\ engineBody' = [kind |-> "raised", single |-> NoSingle]
    /\ UNCHANGED <<formData, files, map, operations, i, tasks, firstRejection,
                   writes, engineCalls, passedVars, cleaned, emitted, drainFails,
                   remaining, results>>
    /\ UNCHANGED handleVars
    /\ UNCHANGED libVars

\* one round of for await (const result of subsequentResults)
DrainNext ==
    /\ pc = "drain"
    /\ remaining # <<>>
    /\ results' = DrainPush(results, Head(remaining))
    /\ remaining' = Tail(remaining)
    /\ UNCHANGED <<pc, outcome, response, formData, files, map, operations, i, tasks,
                   firstRejection, writes, engineCalls, passedVars, cleaned, emitted,
                   drainFails>>
    /\ UNCHANGED <<engineBody, handle, calls>>
    /\ UNCHANGED libVars

\* an end of the drain that returns what was collected when the sequence raises
DrainEndReturningCollected ==
    /\ pc = "drain"
    /\ remaining = <<>>
    /\ Return(ResultsResponse(results))
    /\ UNCHANGED <<formData, files, map, operations, i, tasks, firstRejection,
                   writes, engineCalls, passedVars, cleaned, emitted, drainFails,
                   remaining, results>>
    /\ UNCHANGED <<engineBody, handle, calls>>
    /\ UNCHANGED libVars

\* the sequence ends, or raises: the {results} response, or the catch block
DrainEnd ==
    /\ pc = "drain"
    /\ remaining = <<>>
    /\ IF drainFails THEN Throw(Err("drain", "")) ELSE Return(ResultsResponse(results))
    /\ UNCHANGED <<formData, files, map, operations, i, tasks, firstRejection,
                   writes, engineCalls, passedVars, cleaned, emitted, drainFails,
                   remaining, results>>
    /\ UNCHANGED <<engineBody, handle, calls>>
    /\ UNCHANGED libVars

Next ==
    \/ ReadFormData
    \/ ExtractFiles
    \/ ParseEnvelope
    \/ DispatchLoop
    \/ AwaitAll
    \/ \E k \in FieldKeys : OpenStream(k)
    \/ \E k \in FieldKeys : ReadBuffer(k)
    \/ \E k \in FieldKeys : BindUpload(k)
    \/ JoinAll
    \/ JoinRejected
    \/ Clean
    \/ ExecuteOperation
    \/ EngineSingle
    \/ EngineIncremental
    \/ EngineRaises
    \/ DrainNext
    \/ DrainEnd

Spec == Init /\ [][Next]_vars

\* ------------------------------------------------------------------ the request, as sent

\* ------------------------------------------------------------------ Upload

\* the descriptors and the reasons a caller of an Upload handle passes
UploadFiles ==
    { Descriptor(k, SpareFile, "image/png", [sig |-> "image/png", text |-> FALSE]) :
        k \in FieldKeys }
Reasons == {"aborted", "timeout"}

\* upload.resolve(file): this.file = file, then the promise's own resolve,
\* which settles the promise only if it is still pending
resolve(u, file) ==
    [u EXCEPT !.hasFile = TRUE,
              !.file = file,
              !.state = IF u.state = "pending" THEN "fulfilled" ELSE @,
              !.value = IF u.state = "pending" THEN file ELSE @]

\* upload.reject(reason): the promise's own reject
reject(u, reason) ==
    IF u.state = "pending"
    THEN [u EXCEPT !.state = "rejected", !.reason = reason]
    ELSE u

\* a caller resolves the handle
CallResolve ==
    /\ Len(calls) < MaxCalls
    /\ \E file \in UploadFiles :
          /\ handle' = resolve(handle, file)
          /\ calls' = Append(calls, [op |-> "resolve", file |-> file, reason |-> ""])
    /\ UNCHANGED requestVars
    /\ UNCHANGED libVars

\* a caller rejects the handle
CallReject ==
    /\ Len(calls) < MaxCalls
    /\ \E reason \in Reasons :
          /\ handle' = reject(handle, reason)
          /\ calls' = Append(calls, [op |-> "reject", file |-> NoDescriptor,
                                     reason |-> reason])
    /\ UNCHANGED requestVars
    /\ UNCHANGED libVars

NextUpload ==
    \/ CallResolve
    \/ CallReject

\* an Upload handle under any sequence of resolve and reject calls
SpecUpload == Init /\ [][NextUpload]_vars

\* ------------------------------------------------------------------ streams

Bytes == {0, 1}
Buffers == SeqsUpTo(Bytes, MaxBufferLen)

\* Buffer.concat(chunks)
RECURSIVE BufferConcat(_)
BufferConcat(chunks) ==
    IF chunks = <<>> THEN <<>> ELSE Head(chunks) \o BufferConcat(Tail(chunks))

\* a stream that is handed the buffer twice
bufferToStreamPushingTwice(b) ==
    [queue |-> IF b = <<>> THEN <<>> ELSE <<b, b>>, chunks |-> <<>>,
     done |-> FALSE, out |-> <<>>]

\* bufferToStream: new Readable(); push(buffer); push(null). The stream holds
\* the buffer as one chunk (pushing an empty buffer queues nothing) and has
\* ended behind it; chunks, done and out belong to the streamToBuffer that
\* reads it
bufferToStream(b) ==
    [queue |-> IF b = <<>> THEN <<>> ELSE <<b>>, chunks |-> <<>>,
     done |-> FALSE, out |-> <<>>]

\* a file's bytes as processUpload has buffered them
InitStream ==
    /\ InitRequest
    /\ handle = NewUpload
    /\ calls = <<>>
    /\ buffer \in Buffers
    /\ streams = <<>>
    /\ call = NoCall

\* createReadStream: () => bufferToStream(buffer)
CreateReadStream ==
    /\ Len(streams) < MaxStreams
    /\ streams' = Append(streams, bufferToStream(buffer))
    /\ UNCHANGED <<buffer, call>>
    /\ UNCHANGED requestVars
    /\ UNCHANGED handleVars

\* streamToBuffer, one round of for await: chunks.push(chunk)
ReadChunk(n) ==
    /\ ~streams[n].done
    /\ streams[n].queue # <<>>
    /\ streams' = [streams EXCEPT ![n].chunks = Append(@, Head(streams[n].queue)),
                                  ![n].queue = Tail(@)]
    /\ UNCHANGED <<buffer, call>>
    /\ UNCHANGED requestVars
    /\ UNCHANGED handleVars

\* streamToBuffer, the stream has ended: return Buffer.concat(chunks)
EndOfStream(n) ==
    /\ ~streams[n].done
    /\ streams[n].queue = <<>>
    /\ streams' = [streams EXCEPT ![n].done = TRUE,
                                  ![n].out = BufferConcat(streams[n].chunks)]
    /\ UNCHANGED <<buffer, call>>
    /\ UNCHANGED requestVars
    /\ UNCHANGED handleVars

NextStream ==
    \/ CreateReadStream
    \/ \E n \in 1..Len(streams) : ReadChunk(n)
    \/ \E n \in 1..Len(streams) : EndOfStream(n)

\* the streams of one descriptor, read in any interleaving
SpecStream == InitStream /\ [][NextStream]_vars

\* ------------------------------------------------------------------ termination

\* a smaller set of requests: one or two mapped fields, distinct or colliding
\* or without a path; per field no part or a file that is fine, of a declared
\* type that is not allowed, without a name, or too large; an 'operations'
\* field that parses or not
LiveMaps ==
    { [k \in {KeyOrder[1]} |-> <<PathFile>>],
      [k \in FieldKeys |-> IF k = KeyOrder[1] THEN <<PathFile>> ELSE <<PathDoc>>],
      [k \in FieldKeys |-> <<PathFile>>],
      [k \in FieldKeys |-> IF k = KeyOrder[1] THEN <<PathFile>> ELSE <<>>] }
LiveFiles ==
    { SpareFile,
      [SpareFile EXCEPT !.type = "application/octet-stream"],
      [SpareFile EXCEPT !.name = ""],
      [SpareFile EXCEPT !.size = MaxFileSize + 1] }
LiveParts(k) ==
    { <<>> } \cup { << [key |-> k, isFile |-> TRUE, file |-> f] >> : f \in LiveFiles }
LiveOperations ==
    { Field("object", NoMap, [query |-> "q", hasVars |-> TRUE, variables |-> NoVars]),
      Field("unparseable", NoMap, NoOperations) }
LiveForms ==
    UNION { { [map |-> Field("object", m, NoOperations), operations |-> o,
               entries |-> e0 \o e1] :
              o \in LiveOperations,
              e0 \in LiveParts(KeyOrder[1]),
              e1 \in IF KeyOrder[2] \in DOMAIN m THEN LiveParts(KeyOrder[2])
                     ELSE { <<>> } } : m \in LiveMaps }

\* await request.formData(), for the requests above
ReadFormDataLive ==
    /\ pc = "start"
    /\ \/ /\ \E form \in LiveForms : formData' = form
          /\ pc' = "extractFiles"
          /\ UNCHANGED <<outcome, response>>
       \/ /\ Throw(Err("formdata", ""))
          /\ UNCHANGED formData
    /\ UNCHANGED <<files, map, operations, i, tasks, firstRejection, writes,
                   engineCalls, passedVars, cleaned, emitted, drainFails, remaining,
                   results, engineBody>>
    /\ UNCHANGED handleVars
    /\ UNCHANGED libVars

NextLive ==
    \/ ReadFormDataLive
    \/ ExtractFiles
    \/ ParseEnvelope
    \/ DispatchLoop
    \/ AwaitAll
    \/ \E k \in FieldKeys : OpenStream(k)
    \/ \E k \in FieldKeys : ReadBuffer(k)
    \/ \E k \in FieldKeys : BindUpload(k)
    \/ JoinAll
    \/ JoinRejected
    \/ Clean
    \/ ExecuteOperation
    \/ EngineSingle
    \/ EngineIncremental
    \/ EngineRaises
    \/ DrainNext
    \/ DrainEnd

\* a request whose awaits all settle: the form data is read, the streams are
\* finite, the context and the engine answer, the result sequence is finite
SpecLive == Init /\ [][NextLive]_vars /\ WF_vars(NextLive)

\* ------------------------------------------------------------------ exported helpers

\* the values a variable can hold when the engine coerces it
ScalarValues == {UploadValue(d) : d \in UploadFiles} \cup InitValues

\* the kinds of literal nodes of a query document
LiteralNodes == {"StringValue", "ObjectValue", "NullValue"}

\* GraphQLUpload.parseValue: the promise of an Upload instance, and for any
\* other value a GraphQLError, returned
parseValue(value) ==
    IF value.kind = "upload"
    THEN [kind |-> "returned", type |-> "promise", file |-> value.file, message |-> ""]
    ELSE [kind |-> "returned", type |-> "GraphQLError", file |-> NoDescriptor,
          message |-> "Upload value invalid."]

\* GraphQLUpload.parseLiteral: throws
parseLiteral(node) ==
    [kind |-> "raised", type |-> "GraphQLError", file |-> NoDescriptor,
     message |-> "Upload literal unsupported."]

\* GraphQLUpload.serialize: throws
serialize(value) ==
    [kind |-> "raised", type |-> "GraphQLError", file |-> NoDescriptor,
     message |-> "Upload serialization unsupported."]

\* the entries a form data can have, several of them under one field name
FormEntries ==
    { [key |-> k, isFile |-> FALSE, file |-> NoFile] : k \in FieldKeys }
        \cup { [key |-> k, isFile |-> TRUE, file |-> f] :
                 k \in FieldKeys,
                 f \in {SpareFile, [SpareFile EXCEPT !.type = "application/octet-stream"]} }

CallParseValue ==
    /\ \E value \in ScalarValues :
          call' = [fn |-> "parseValue", input |-> value, outcome |-> parseValue(value)]
    /\ UNCHANGED <<buffer, streams>>
    /\ UNCHANGED requestVars
    /\ UNCHANGED handleVars

CallParseLiteral ==
    /\ \E node \in LiteralNodes :
          call' = [fn |-> "parseLiteral", input |-> node, outcome |-> parseLiteral(node)]
    /\ UNCHANGED <<buffer, streams>>
    /\ UNCHANGED requestVars
    /\ UNCHANGED handleVars

CallSerialize ==
    /\ \E value \in ScalarValues :
          call' = [fn |-> "serialize", input |-> value, outcome |-> serialize(value)]
    /\ UNCHANGED <<buffer, streams>>
    /\ UNCHANGED requestVars
    /\ UNCHANGED handleVars

CallSanitize ==
    /\ \E input \in MapFields \cup OperationsFields :
          call' = [fn |-> "sanitizeAndValidateJSON", input |-> input,
                   outcome |-> sanitizeAndValidateJSON(input)]
    /\ UNCHANGED <<buffer, streams>>
    /\ UNCHANGED requestVars
    /\ UNCHANGED handleVars

CallExtractFiles ==
    /\ \E entries \in SeqsUpTo(FormEntries, MaxEntries) :
          LET form == [NoForm EXCEPT !.entries = entries]
          IN call' = [fn |-> "extractFiles", input |-> form, outcome |-> extractFiles(form)]
    /\ UNCHANGED <<buffer, streams>>
    /\ UNCHANGED requestVars
    /\ UNCHANGED handleVars

NextHelpers ==
    \/ CallParseValue
    \/ CallParseLiteral
    \/ CallSerialize
    \/ CallSanitize
    \/ CallExtractFiles

\* the exported helpers, called with any input
SpecHelpers == Init /\ [][NextHelpers]_vars

\* request.formData() has delivered the form
FormRead == pc # "start" /\ ~(pc = "done" /\ response.error.kind = "formdata")

\* both JSON fields are objects
ValidEnvelope ==
    FormRead /\ formData.map.kind = "object" /\ formData.operations.kind = "object"

\* the map and the file parts of the request
SentMap == formData.map.map
SentFiles == extractFiles(formData)
SentKeys == MapKeys(SentMap)

\* the map key at position n names an uploaded file over the ceiling
Oversized(n) ==
    /\ SentKeys[n] \in DOMAIN SentFiles
    /\ SentFiles[SentKeys[n]].size > MaxFileSize

\* the map key at position n has an uploaded file and a path
Dispatchable(n) ==
    /\ SentKeys[n] \in DOMAIN SentFiles
    /\ SentMap[SentKeys[n]] # <<>>

\* the bytes of the part under k have been buffered by its task
ContentRead(k) ==
    \/ tasks[k].pc \in {"sniff", "bound"}
    \/ tasks[k].pc = "rejected" /\ tasks[k].error.kind \in {"type", "novars"}

\* the task of the part under k has fulfilled or rejected
Settled(k) == tasks[k].pc \in {"bound", "rejected"}

\* the effective type that section 4.2 of the specification prescribes
PrescribedType(declared, content) ==
    CASE content.sig # "none" -> content.sig
      [] content.sig = "none" /\ content.text -> "text/plain"
      [] OTHER -> declared

AllowedSet == {AllowedTypes[n] : n \in 1..Len(AllowedTypes)}

\* the part under k has been read and its effective type is not allowed
Disallowed(k) ==
    /\ ContentRead(k)
    /\ PrescribedType(tasks[k].file.type, tasks[k].content) \notin AllowedSet

\* the handles among the variables the engine was invoked with
PassedHandles == {v \in DOMAIN passedVars : passedVars[v].kind = "upload"}

\* ------------------------------------------------------------------ C1

\* C1 as stated: whenever a mapped file of a parseable envelope is over the
\* ceiling, the request ends with the size-error response and the engine is
\* never invoked, whatever the other map entries and files are.
C1_SizeErrorWhateverElse ==
    (ValidEnvelope /\ pc = "done" /\ \E n \in 1..Len(SentKeys) : Oversized(n))
        => (response = SizeErrorResponse /\ engineCalls = 0)

\* C1 (amended): a mapped file over the ceiling always ends the request with
\* an {error} response and without an engine call; the response is the
\* size-error response when the envelope parses and every map key before the
\* first oversized one has an uploaded file and a path.
C1_SizeAborts ==
    (FormRead /\ \E n \in 1..Len(SentKeys) : Oversized(n))
        => /\ engineCalls = 0
           /\ pc = "done" => response.shape = "error"
           /\ (/\ pc = "done"
               /\ ValidEnvelope
               /\ \E n \in 1..Len(SentKeys) :
                     /\ Oversized(n)
                     /\ \A m \in 1..(n - 1) : Dispatchable(m))
                  => response = SizeErrorResponse

\* an oversized second file ends the request after the first file's task was
\* dispatched
C1_Witness ==
    /\ pc = "done"
    /\ response = SizeErrorResponse
    /\ Len(SentKeys) = 2
    /\ Oversized(2)
    /\ tasks[SentKeys[1]].pc # "none"

\* ------------------------------------------------------------------ C2

\* C2 as stated: when the engine is invoked for a parseable envelope whose N
\* map entries all have a file within the size and type policy, the variables
\* hold exactly N handles, one per entry, under the last segment of the
\* entry's (first) path.
C2_OneHandlePerEntry ==
    (/\ engineCalls > 0
     /\ ValidEnvelope
     /\ \A k \in DOMAIN SentMap :
           /\ k \in DOMAIN SentFiles
           /\ SentFiles[k].size <= MaxFileSize
           /\ SentMap[k] # <<>>
           /\ ContentRead(k)
           /\ ~Disallowed(k))
        => /\ Cardinality(PassedHandles) = Cardinality(DOMAIN SentMap)
           /\ \A k \in DOMAIN SentMap :
                 LET path == SentMap[k][1]
                     key == path[Len(path)]
                 IN /\ key \in PassedHandles
                    /\ \E j \in DOMAIN SentMap :
                          /\ passedVars[key].file.part = j
                          /\ SentMap[j][1][Len(SentMap[j][1])] = key

\* ------------------------------------------------------------------ C3

\* C3: uploadProcess never raises to its caller, and when it has completed it
\* has returned a response of one of the shapes {error}, {data, errors},
\* {results}, whatever failed.
C3_AlwaysAResponse ==
    /\ outcome # "raised"
    /\ pc # "done" => outcome = "pending" /\ response = NoResponse
    /\ pc = "done" =>
          /\ outcome = "returned"
          /\ response.shape \in {"error", "data", "results"}
          /\ response.shape = "error" <=> response.error # NoErr
          /\ response.shape = "data" <=> response.single # NoSingle
          /\ response.shape = "results" <=> response.results # <<>>

\* a failed context resolution was answered with an {error} response
C3_Witness ==
    /\ pc = "done"
    /\ outcome = "returned"
    /\ response.error.kind = "context"

\* ------------------------------------------------------------------ C4

Phase ==
    CASE pc \in {"start", "extractFiles", "parse"} -> "Extracting"
      [] pc \in {"loop", "join"} -> "Binding"
      [] pc = "clean" -> "Cleaning"
      [] pc \in {"context", "executing"} -> "Executing"
      [] pc = "drain" -> "Responding"
      [] OTHER -> IF response.shape = "error" THEN "Failed" ELSE "Responding"

PhaseRank(p) ==
    CASE p = "Extracting" -> 1
      [] p = "Binding" -> 2
      [] p = "Cleaning" -> 3
      [] p = "Executing" -> 4
      [] p = "Responding" -> 5
      [] OTHER -> 6

\* C4: the phases only advance (Failed being reachable from every phase); the
\* engine is invoked at most once, and only when every map key has had its
\* task dispatched, every task has fulfilled and the cleaning pass has run;
\* once the response is returned the orchestrator does nothing more.
C4_PhasesInOrder ==
    [][ /\ PhaseRank(Phase') >= PhaseRank(Phase)
        /\ (Phase' # Phase /\ Phase' # "Failed") =>
              PhaseRank(Phase') = PhaseRank(Phase) + 1
        /\ engineCalls' # engineCalls =>
              /\ engineCalls = 0
              /\ engineCalls' = 1
              /\ Phase = "Executing"
              /\ cleaned
              /\ \A k \in FieldKeys : tasks[k].pc \in {"none", "bound"}
              /\ \A k \in DOMAIN map : tasks[k].pc = "bound"
        /\ cleaned' # cleaned => Phase = "Cleaning" /\ engineCalls = 0
        /\ pc = "done" =>
              /\ pc' = "done"
              /\ response' = response
              /\ outcome' = outcome
              /\ engineCalls' = engineCalls
      ]_vars

\* a request with two bound files went through every phase to its response
C4_Witness ==
    /\ pc = "done"
    /\ Phase = "Responding"
    /\ engineCalls = 1
    /\ \A k \in FieldKeys : tasks[k].pc = "bound"

\* ------------------------------------------------------------------ C5

\* C5: when 'operations' or 'map' is absent or unparseable, no binding task
\* is ever dispatched, no stream opened, no variable written and the engine
\* not invoked, and the request ends with the invalid-JSON error response.
C5_MalformedEnvelopeFailsFirst ==
    (/\ FormRead
     /\ \/ formData.map.kind \in {"absent", "unparseable"}
        \/ formData.operations.kind \in {"absent", "unparseable"})
        => /\ \A k \in FieldKeys : tasks[k].pc = "none"
           /\ writes = 0
           /\ operations.variables = NoVars
           /\ engineCalls = 0
           /\ pc \in {"extractFiles", "parse", "done"}
           /\ pc = "done" =>
                 /\ response.shape = "error"
                 /\ response.error.kind = "json"
                 /\ response.prefixed

\* a request with a mapped, uploaded file and no 'operations' field was
\* answered with the invalid-JSON error
C5_Witness ==
    /\ pc = "done"
    /\ response.error.kind = "json"
    /\ formData.operations.kind = "absent"
    /\ formData.map.kind = "object"
    /\ \E k \in DOMAIN SentMap : k \in DOMAIN SentFiles /\ ~InvalidFileProperties(SentFiles[k])

\* ------------------------------------------------------------------ C6

\* the envelope parses and nothing but a type check can fail the request
OnlyTypesCanFail ==
    /\ ValidEnvelope
    /\ formData.operations.ops.hasVars
    /\ \A n \in 1..Len(SentKeys) :
          /\ Dispatchable(n)
          /\ ~Oversized(n)
          /\ ~InvalidFileProperties(SentFiles[SentKeys[n]])
    /\ \A k \in FieldKeys : tasks[k].error.kind # "stream"

\* C6 as stated: when the effective type of any mapped file is not allowed,
\* the request ends with the {error} response that names a rejected effective
\* type and the allowed types, and the engine is not invoked.
C6_TypeErrorWhateverElse ==
    (pc = "done" /\ \E k \in FieldKeys : Disallowed(k))
        => /\ engineCalls = 0
           /\ response.shape = "error"
           /\ response.error.kind = "type"
           /\ \E k \in FieldKeys :
                 /\ Disallowed(k)
                 /\ response.error.mime = PrescribedType(tasks[k].file.type, tasks[k].content)

\* C6 (amended): a mapped file whose effective type is not allowed always
\* ends the request with an {error} response and without an engine call; the
\* message is the type error when no other failure comes first, and a type
\* error always names the effective (sniffed) type of a rejected file and
\* lists the allowed types.
C6_DisallowedTypeFails ==
    /\ (\E k \in FieldKeys : Disallowed(k))
          => /\ engineCalls = 0
             /\ pc = "done" => response.shape = "error"
             /\ (pc = "done" /\ OnlyTypesCanFail) => response.error.kind = "type"
    /\ (pc = "done" /\ response.error.kind = "type")
          => /\ response.prefixed
             /\ response.error.allowed = AllowedTypes
             /\ \E k \in FieldKeys :
                   /\ Disallowed(k)
                   /\ response.error.mime =
                         PrescribedType(tasks[k].file.type, tasks[k].content)

\* a file declared with an allowed type was rejected for its sniffed type
C6_Witness ==
    /\ pc = "done"
    /\ response.error.kind = "type"
    /\ \E k \in FieldKeys :
          /\ Disallowed(k)
          /\ tasks[k].file.type \in AllowedSet
          /\ response.error.mime # tasks[k].file.type

\* ------------------------------------------------------------------ C7

\* what a binding task ended with
TaskOutcome(k) == <<tasks[k].pc, tasks[k].mimeType, tasks[k].error>>

\* the parts under j and k differ at most in their declared type (bytes that
\* were never read may be any bytes)
SameButDeclaredType(j, k) ==
    /\ tasks[j].file.name = tasks[k].file.name
    /\ tasks[j].file.size = tasks[k].file.size
    /\ tasks[j].varName = tasks[k].varName
    /\ ContentRead(k) => tasks[k].content = tasks[j].content

\* every bound handle over bytes with a signature carries the signature's type
SignatureDecides ==
    \A v \in DOMAIN operations.variables :
        LET d == operations.variables[v].file
        IN (operations.variables[v].kind = "upload" /\ d.content.sig # "none")
              => d.mimeType = d.content.sig

\* C7 as stated: two parts whose bytes carry a signature and that differ only
\* in the declared type end the same way, with the same effective type.
C7_DeclaredTypeIrrelevant ==
    \A j, k \in FieldKeys :
        (/\ Settled(j) /\ Settled(k)
         /\ ContentRead(j)
         /\ tasks[j].content.sig # "none"
         /\ ContentRead(k) \/ tasks[k].error.kind = "props"
         /\ SameButDeclaredType(j, k))
            => TaskOutcome(j) = TaskOutcome(k)

\* C7 (amended): a bound handle over bytes with a signature carries the
\* signature's type, and two parts whose bytes carry a signature and that
\* differ only in a non-empty declared type end the same way, with the same
\* effective type.
C7_DeclaredTypeIrrelevantIfGiven ==
    /\ SignatureDecides
    /\ \A j, k \in FieldKeys :
          (/\ Settled(j) /\ Settled(k)
           /\ ContentRead(j)
           /\ tasks[j].content.sig # "none"
           /\ ContentRead(k) \/ tasks[k].error.kind = "props"
           /\ tasks[j].file.type # "" /\ tasks[k].file.type # ""
           /\ SameButDeclaredType(j, k))
              => TaskOutcome(j) = TaskOutcome(k)

\* two parts with the same signature bytes, declared with different types, of
\* which one is not allowed, were both bound with the signature's type
C7_Witness ==
    \E j, k \in FieldKeys :
        /\ tasks[j].pc = "bound" /\ tasks[k].pc = "bound"
        /\ tasks[j].content.sig = "image/png"
        /\ SameButDeclaredType(j, k)
        /\ tasks[j].file.type = "image/png"
        /\ tasks[k].file.type = "application/octet-stream"
        /\ tasks[k].mimeType = "image/png"

\* ------------------------------------------------------------------ C8

\* C8: the MIME type a task settles on is the signature's type when the bytes
\* carry one, else text/plain when they are text, else the declared type; the
\* descriptor it binds carries that type.
C8_EffectiveTypeOrder ==
    /\ \A k \in FieldKeys :
          ContentRead(k) /\ Settled(k) =>
              /\ tasks[k].content.sig # "none" => tasks[k].mimeType = tasks[k].content.sig
              /\ (tasks[k].content.sig = "none" /\ tasks[k].content.text)
                    => tasks[k].mimeType = "text/plain"
              /\ (tasks[k].content.sig = "none" /\ ~tasks[k].content.text)
                    => tasks[k].mimeType = tasks[k].file.type
    /\ \A v \in DOMAIN operations.variables :
          LET d == operations.variables[v].file
          IN operations.variables[v].kind = "upload" =>
                /\ tasks[d.part].file.name = d.fileName
                /\ d.mimeType =
                      IF d.content.sig # "none" THEN d.content.sig
                      ELSE IF d.content.text THEN "text/plain"
                      ELSE tasks[d.part].file.type

\* all three branches were taken: bytes that carry a signature and are text
\* got the signature's type, text bytes got text/plain, other bytes were
\* bound with the declared type
C8_Witness ==
    /\ \E k \in FieldKeys :
          /\ Settled(k) /\ ContentRead(k)
          /\ tasks[k].content.sig = "application/xml" /\ tasks[k].content.text
          /\ tasks[k].mimeType = "application/xml"
    /\ \E k \in FieldKeys :
          /\ tasks[k].pc = "bound"
          /\ tasks[k].content.sig = "none"
          /\ tasks[k].mimeType = tasks[k].file.type \/ tasks[k].mimeType = "text/plain"

\* ------------------------------------------------------------------ C9

\* C9: the variables the engine is invoked with hold no falsy value, the
\* cleaning pass runs only when every dispatched task has fulfilled, and
\* nothing is written into the variables after it.
C9_NoFalsyVariablePassed ==
    /\ engineCalls > 0 =>
          /\ \A v \in DOMAIN passedVars : passedVars[v].kind # "null"
          /\ passedVars = operations.variables
    /\ cleaned =>
          /\ \A k \in FieldKeys : tasks[k].pc \in {"none", "bound"}
          /\ \A v \in DOMAIN operations.variables : operations.variables[v].kind # "null"

\* the engine was invoked after a null variable of the request was deleted
\* and a file bound
C9_Witness ==
    /\ engineCalls > 0
    /\ \E v \in DOMAIN formData.operations.ops.variables :
          /\ formData.operations.ops.variables[v].kind = "null"
          /\ v \notin DOMAIN passedVars
    /\ PassedHandles # {}

\* ------------------------------------------------------------------ C10

\* C10: a {results} response is the initial result followed by every
\* subsequent result in the engine's order, and is produced only when the
\* sequence has been drained; the drain collects a prefix of that order.
C10_ResultsInEmissionOrder ==
    /\ pc = "drain" => results \o remaining = emitted
    /\ response.shape = "results" =>
          /\ response.results = emitted
          /\ response.results[1] = InitialResult
          /\ remaining = <<>>
          /\ results = emitted

\* an incremental answer with two different subsequent results was returned
C10_Witness ==
    /\ response.shape = "results"
    /\ Len(response.results) = 3
    /\ response.results[2] # response.results[3]

\* ------------------------------------------------------------------ C11

\* C11: when the engine returns a single result, the response body is
\* {data, errors} with the data and the errors of the engine's singleResult,
\* unchanged, and nothing else; no other answer gives a {data, errors} body.
C11_SingleResultAsIs ==
    /\ engineBody.kind = "single" =>
          /\ pc = "done"
          /\ outcome = "returned"
          /\ response.shape = "data"
          /\ response.single.data = engineBody.single.data
          /\ response.single.errors = engineBody.single.errors
          /\ response.error = NoErr
          /\ response.results = <<>>
    /\ response.shape = "data" => engineBody.kind = "single"

\* a single result that carries errors and null data was returned
C11_Witness ==
    /\ pc = "done"
    /\ engineBody.kind = "single"
    /\ engineBody.single.errors = "e1"
    /\ response.single.errors = "e1"
    /\ response.single.data = "null"

\* ------------------------------------------------------------------ C12

\* the request did not get an answer out of the engine: it ended before the
\* engine was invoked, the engine raised, or the incremental sequence raised
RaisedFailure ==
    \/ engineCalls = 0
    \/ engineBody.kind = "raised"
    \/ engineBody.kind = "incremental" /\ drainFails

\* the engine returned an error condition in its single result
ReturnedErrors == engineBody.kind = "single" /\ engineBody.single.errors # "undefined"

\* C12 as stated: every failure of a request, an engine that returned an
\* error condition included, yields a response body with an 'error' string.
C12_EveryFailureCarriesError ==
    (pc = "done" /\ (RaisedFailure \/ ReturnedErrors))
        => response.shape = "error" /\ response.error # NoErr

\* C12, amended: every failure that ends the request before the engine has
\* answered, and every engine or drain that raises, yields a body with an
\* 'error' string; errors the engine returns in a single result come back
\* in the {data, errors} body, which has no 'error' string.
C12_RaisedFailuresCarryError ==
    /\ (pc = "done" /\ RaisedFailure)
          => /\ outcome = "returned"
             /\ response.shape = "error"
             /\ response.error # NoErr
             /\ response.error.kind \in
                   {"formdata", "json", "missing", "size", "nopath", "props", "stream",
                    "type", "novars", "context", "engine", "drain"}
    /\ (pc = "done" /\ ReturnedErrors)
          => response.shape = "data" /\ response.error = NoErr

\* the engine raised and the response carries its error
C12_Witness ==
    /\ pc = "done"
    /\ engineBody.kind = "raised"
    /\ response.shape = "error"
    /\ response.error.kind = "engine"

\* ------------------------------------------------------------------ C13

\* the field names that carry a file part in the request
UploadedKeys ==
    {formData.entries[n].key :
        n \in {m \in DOMAIN formData.entries : formData.entries[m].isFile}}

\* the field names of the map without a file part
MissingKeys == {k \in DOMAIN SentMap : k \notin UploadedKeys}

\* C13: a field name of the map without an uploaded file part makes the
\* request fail with an {error} response, no binding task is dispatched for
\* that field and the engine is not invoked; when the loop reaches that field
\* the error is the one of reading the size of the missing file.
C13_MissingFileFails ==
    (FormRead /\ MissingKeys # {})
        => /\ \A k \in MissingKeys : tasks[k].pc = "none"
           /\ engineCalls = 0
           /\ pc = "done" => response.shape = "error" /\ response.error # NoErr
           /\ (/\ pc = "done"
               /\ ValidEnvelope
               /\ \E n \in 1..Len(SentKeys) :
                     /\ SentKeys[n] \in MissingKeys
                     /\ \A m \in 1..(n - 1) : Dispatchable(m) /\ ~Oversized(m))
                  => response.error = Err("missing", "") /\ response.prefixed

\* the second field of the map came as a text value, not as a file, after
\* the first field's task was dispatched
C13_Witness ==
    /\ pc = "done"
    /\ response.error.kind = "missing"
    /\ Len(SentKeys) = 2
    /\ SentKeys[2] \in MissingKeys
    /\ \E n \in DOMAIN formData.entries : formData.entries[n].key = SentKeys[2]
    /\ tasks[SentKeys[1]].pc # "none"

\* ------------------------------------------------------------------ C14

\* the handle after a sequence of calls on a new Upload
RECURSIVE Replay(_)
Replay(cs) ==
    IF cs = <<>> THEN NewUpload
    ELSE LET c == cs[Len(cs)]
             u == Replay(SubSeq(cs, 1, Len(cs) - 1))
         IN IF c.op = "resolve" THEN resolve(u, c.file) ELSE reject(u, c.reason)

\* C14: after the first resolve(f) on a handle, no later resolve or reject
\* changes the value its promise settles to or any other state of the handle:
\* the handle stays what it was right after that first resolve.
C14_ResolvesOnce ==
    \A n \in 1..Len(calls) :
        (calls[n].op = "resolve" /\ \A m \in 1..(n - 1) : calls[m].op # "resolve")
            => handle = Replay(SubSeq(calls, 1, n))

\* ------------------------------------------------------------------ C15

\* the key a map entry's handle belongs under: the last segment of its first path
TargetKey(k) == LET first == SentMap[k][1] IN first[Len(first)]

\* two entries of the map target the same top-level variable key
Colliding ==
    \E j, k \in DOMAIN SentMap :
        /\ j # k
        /\ SentMap[j] # <<>>
        /\ SentMap[k] # <<>>
        /\ TargetKey(j) = TargetKey(k)

\* C15: a request whose map has two entries that target the same variable
\* key fails with an {error} response and never reaches the engine.
C15_CollisionIsAnError ==
    (FormRead /\ Colliding)
        => /\ engineCalls = 0
           /\ pc = "done" => response.shape = "error"

\* ------------------------------------------------------------------ C16

\* the variables the engine must be given, from the request and the bytes of
\* its files alone: every handle under the key of its own map entry
ExpectedVariables ==
    LET init == formData.operations.ops.variables
        targets == {TargetKey(k) : k \in DOMAIN SentMap}
        entryOf(v) == CHOOSE k \in DOMAIN SentMap : TargetKey(k) = v
        handleOf(k) ==
            UploadValue(Descriptor(k, SentFiles[k],
                                   PrescribedType(SentFiles[k].type, tasks[k].content),
                                   tasks[k].content))
    IN CleanVariables([v \in DOMAIN init \cup targets |->
                          IF v \in targets THEN handleOf(entryOf(v)) ELSE init[v]])

\* the rejections that a binding task raises after its first await
AsyncKinds == {"stream", "type", "novars"}

\* C16 as stated: with pairwise distinct target keys, the variables passed to
\* the engine and the final response do not depend on the order in which the
\* binding tasks complete; for an {error} response of a binding task this
\* means that every task that rejects after an await rejects with that error.
C16_SameWhateverTheOrder ==
    (ValidEnvelope /\ ~Colliding)
        => /\ engineCalls > 0 => passedVars = ExpectedVariables
           /\ (pc = "done" /\ response.error.kind \in AsyncKinds)
                 => \A k \in FieldKeys :
                       (tasks[k].pc = "rejected" /\ tasks[k].error.kind \in AsyncKinds)
                           => tasks[k].error = response.error

\* C16, amended: with pairwise distinct target keys, the variables passed to
\* the engine are the same for every completion order, each handle under the
\* key of its own map entry and read from its own part; an {error} response
\* of the join carries the rejection of one of the tasks that rejected.
C16_BindingByOwnKey ==
    (ValidEnvelope /\ ~Colliding)
        => /\ engineCalls > 0
                 => /\ passedVars = ExpectedVariables
                    /\ \A k \in DOMAIN SentMap :
                          /\ passedVars[TargetKey(k)].kind = "upload"
                          /\ passedVars[TargetKey(k)].file.part = k
           /\ (pc = "done" /\ response.error.kind \in AsyncKinds)
                 => \E k \in FieldKeys :
                       tasks[k].pc = "rejected" /\ tasks[k].error = response.error

\* the engine got two handles, the one of the first field under 'doc' and the
\* one of the second field under 'file'
C16_Witness ==
    /\ engineCalls > 0
    /\ Len(SentKeys) = 2
    /\ ~Colliding
    /\ SentMap[SentKeys[1]] = <<PathDoc>>
    /\ SentMap[SentKeys[2]] = <<PathFile, PathDoc>>
    /\ passedVars["doc"].file.part = SentKeys[1]
    /\ passedVars["file"].file.part = SentKeys[2]

\* ------------------------------------------------------------------ C17

\* every map key was dispatched: the request got to Promise.all
LoopCompleted == ValidEnvelope /\ pc # "parse" /\ i > Len(SentKeys)

\* C17: once a binding task has rejected, the engine is never invoked, and the
\* response of a request that got to the join is {error} with the message of
\* the first rejection, whatever the sibling tasks do afterwards.
C17_FirstRejectionDecides ==
    /\ firstRejection # NoErr
          => /\ engineCalls = 0
             /\ \E k \in FieldKeys :
                   tasks[k].pc = "rejected" /\ tasks[k].error = firstRejection
    /\ (pc = "done" /\ LoopCompleted /\ firstRejection # NoErr)
          => /\ response.shape = "error"
             /\ response.error = firstRejection
             /\ response.prefixed

\* the first task's rejection was answered, the second task has then written
\* its handle, and the engine was not invoked
C17_Witness ==
    /\ pc = "done"
    /\ LoopCompleted
    /\ Len(SentKeys) = 2
    /\ tasks[SentKeys[1]].pc = "rejected"
    /\ response.error = tasks[SentKeys[1]].error
    /\ response.error.kind = "type"
    /\ tasks[SentKeys[2]].pc = "bound"
    /\ operations.variables[tasks[SentKeys[2]].varName].kind = "upload"
    /\ engineCalls = 0

\* ------------------------------------------------------------------ C18

\* no task exists for the map key the loop stopped at, nor for a later one
NoTaskFromLoopIndex ==
    \A m \in i..Len(SentKeys) : tasks[SentKeys[m]].pc = "none"

\* the step that returns the size-error response: taken inside the loop, at
\* an oversized file, without dispatching anything, while every task of an
\* earlier key is still before its first await's result or was rejected at
\* its call
SizeReturnStep ==
    (response # SizeErrorResponse /\ response' = SizeErrorResponse)
        => /\ pc = "loop"
           /\ pc' = "done"
           /\ Oversized(i)
           /\ tasks' = tasks
           /\ NoTaskFromLoopIndex
           /\ \A m \in 1..(i - 1) :
                 \/ tasks[SentKeys[m]].pc = "stream"
                 \/ tasks[SentKeys[m]].pc = "rejected"
                       /\ tasks[SentKeys[m]].error.kind = "props"

\* C18: a failed size check returns at once: no binding task is ever
\* dispatched for the oversized key or a later key, so the oversized file's
\* stream is never opened nor buffered, and the return happens while the
\* tasks of the earlier keys are still running.
C18_SizeReturnsImmediately ==
    /\ [](response = SizeErrorResponse => NoTaskFromLoopIndex)
    /\ [][SizeReturnStep]_vars

\* the size error was returned while the first file's task is still waiting
\* for its stream
C18_Witness ==
    /\ pc = "done"
    /\ response = SizeErrorResponse
    /\ Len(SentKeys) = 2
    /\ Oversized(2)
    /\ tasks[SentKeys[1]].pc = "stream"
    /\ tasks[SentKeys[2]].pc = "none"

\* ------------------------------------------------------------------ C19

\* C19: when uploadProcess has returned its response, every binding task it
\* dispatched has been joined: none is still running, and a task that has
\* rejected did so under the Promise.all that observes it.
C19_EveryTaskJoined ==
    pc = "done"
        => \A k \in FieldKeys :
              /\ tasks[k].pc \in {"none", "bound", "rejected"}
              /\ tasks[k].pc = "rejected" => LoopCompleted

\* ------------------------------------------------------------------ C20

\* the task of field k fulfils in this step
Fulfils(k) == tasks[k].pc # "bound" /\ tasks'[k].pc = "bound"

\* the task of field k rejects in this step
Rejects(k) == tasks[k].pc # "rejected" /\ tasks'[k].pc = "rejected"

\* the step of a binding task writes its own key and nothing else
BindFrame ==
    \A k \in FieldKeys :
        /\ Fulfils(k)
              => /\ DOMAIN operations'.variables =
                        DOMAIN operations.variables \cup {TargetKey(k)}
                 /\ operations'.variables[TargetKey(k)].kind = "upload"
                 /\ operations'.variables[TargetKey(k)].file.part = k
                 /\ \A v \in DOMAIN operations.variables \ {TargetKey(k)} :
                       operations'.variables[v] = operations.variables[v]
                 /\ operations'.query = operations.query
                 /\ operations'.hasVars = operations.hasVars
                 /\ writes' = writes + 1
        /\ Rejects(k) => operations' = operations /\ writes' = writes

\* C20: a binding task that succeeds writes exactly one key of
\* operations.variables, the last segment of the first path of its field in
\* the map, and leaves the query and every other variable as they were; a
\* binding task that rejects writes nothing.
C20_BindWritesOneKey == [][BindFrame]_vars

\* a field with two paths was bound under the last segment of its first
\* path, next to a variable of the request that kept its value
C20_Witness ==
    \E k \in FieldKeys :
        /\ tasks[k].pc = "bound"
        /\ k \in DOMAIN SentMap
        /\ SentMap[k] = <<PathFile, PathDoc>>
        /\ DOMAIN operations.variables = {"file", "doc"}
        /\ operations.variables["file"].kind = "upload"
        /\ operations.variables["file"].file.part = k
        /\ operations.variables["doc"] = StrValue
        /\ writes = 1

\* ------------------------------------------------------------------ C21

\* d is the descriptor of the file part under k: the part's name and declared
\* size, the effective type of its bytes, and the encoding 'binary'
DescribesPart(d, k, content) ==
    /\ d.fileName = SentFiles[k].name
    /\ d.fileSize = SentFiles[k].size
    /\ d.mimeType = PrescribedType(SentFiles[k].type, content)
    /\ d.mimeType \in AllowedSet
    /\ d.encoding = "binary"

\* the task that fulfils writes a handle resolved with its part's descriptor
BindDescribes ==
    \A k \in FieldKeys :
        Fulfils(k)
            => /\ operations'.variables[tasks'[k].varName].kind = "upload"
               /\ DescribesPart(operations'.variables[tasks'[k].varName].file, k,
                                tasks'[k].content)

\* every handle the engine was given describes a file part mapped to its key
PassedDescribe ==
    engineCalls > 0
        => \A v \in PassedHandles :
              \E k \in DOMAIN SentMap :
                  /\ TargetKey(k) = v
                  /\ DescribesPart(passedVars[v].file, k, tasks[k].content)

\* C21: the descriptor a bound handle resolves to has the file part's name,
\* its declared size, the effective MIME type and the encoding 'binary', and
\* this is the descriptor the engine is invoked with; a text file declared
\* 'application/octet-stream' is bound as 'text/plain'.
C21_DescriptorOfPart ==
    /\ []PassedDescribe
    /\ [][BindDescribes]_vars

\* the engine was invoked with variables.file resolved to a text file that
\* was declared application/octet-stream
C21_Witness ==
    /\ engineCalls > 0
    /\ "file" \in PassedHandles
    /\ \E k \in DOMAIN SentMap :
          /\ SentFiles[k].type = "application/octet-stream"
          /\ tasks[k].content = [sig |-> "none", text |-> TRUE]
          /\ passedVars["file"].file.part = k
    /\ passedVars["file"].file.fileName = "a.txt"
    /\ passedVars["file"].file.fileSize = MaxFileSize
    /\ passedVars["file"].file.mimeType = "text/plain"
    /\ passedVars["file"].file.encoding = "binary"

\* ------------------------------------------------------------------ C22

\* what a reader of the stream has got and will still get
Delivered(s) == BufferConcat(s.chunks) \o BufferConcat(s.queue)

\* C22: every stream that createReadStream hands out delivers the whole
\* buffered content from the start and then ends, whatever the other streams
\* of the descriptor have delivered; streamToBuffer of it is the buffer again.
C22_FreshStreamRoundTrip ==
    \A n \in 1..Len(streams) :
        /\ Delivered(streams[n]) = buffer
        /\ streams[n].done => streams[n].out = buffer /\ streams[n].queue = <<>>

\* a two-byte buffer was read to its end through the first stream while the
\* second stream, of the same descriptor, has delivered nothing yet
C22_Witness ==
    /\ Len(buffer) = 2
    /\ buffer[1] # buffer[2]
    /\ Len(streams) >= 2
    /\ streams[1].done
    /\ streams[1].out = buffer
    /\ streams[2].chunks = <<>>
    /\ streams[2].queue # <<>>

\* ------------------------------------------------------------------ C23

BadProperties(f) == f.name = "" \/ f.size = 0 \/ f.type = ""

\* the mapped fields whose file part has such properties
BadPropertyKeys ==
    LET sent == SentFiles
    IN {k \in DOMAIN SentMap \cap DOMAIN sent : BadProperties(sent[k])}

\* C24: the binding task of a mapped file without a name, of declared size
\* zero or without a declared type rejects with 'Invalid file properties'
\* without opening the stream or sniffing any content; the request ends with
\* an {error} response, which carries that message when every map key was
\* dispatched, and the engine is not invoked.
C24_InvalidPropertiesReject ==
    LET bad == IF FormRead THEN BadPropertyKeys ELSE {}
    IN bad # {}
        => /\ \A k \in bad :
                 tasks[k].pc # "none"
                     => /\ tasks[k].pc = "rejected"
                        /\ tasks[k].error = Err("props", "")
                        /\ tasks[k].content = NoContent
                        /\ tasks[k].mimeType = ""
           /\ engineCalls = 0
           /\ pc = "done" => response.shape = "error" /\ response.error # NoErr
           /\ (pc = "done" /\ LoopCompleted)
                 => response.error = Err("props", "") /\ response.prefixed

\* the second file has a name and a size but no declared type: its task was
\* rejected at its call, before the first file's task, and decided the response
C24_Witness ==
    /\ pc = "done"
    /\ LoopCompleted
    /\ Len(SentKeys) = 2
    /\ SentFiles[SentKeys[2]].name # ""
    /\ SentFiles[SentKeys[2]].size # 0
    /\ SentFiles[SentKeys[2]].type = ""
    /\ tasks[SentKeys[2]].pc = "rejected"
    /\ tasks[SentKeys[1]].pc = "bound"
    /\ response.error.kind = "props"

\* ------------------------------------------------------------------ C25

\* C25: after any sequence of resolve and reject calls, the handle's 'file'
\* field is set if and only if its promise is fulfilled, and then it is the
\* descriptor the promise is fulfilled with.
C25_FileAgreesWithPromise ==
    /\ handle.hasFile <=> handle.state = "fulfilled"
    /\ handle.state = "fulfilled" => handle.file = handle.value

\* ------------------------------------------------------------------ C26

\* C26: when the subsequent sequence of an incremental result raises while
\* it is drained, the response is the {error} response of the catch block;
\* what the drain had collected is not returned as {results}.
C26_RaisingDrainIsAnError ==
    (engineBody.kind = "incremental" /\ drainFails)
        => /\ response.shape # "results"
           /\ response.results = <<>>
           /\ pc = "done"
                 => /\ outcome = "returned"
                    /\ response.shape = "error"
                    /\ response.error = Err("drain", "")
                    /\ response.prefixed

\* the sequence raised after the drain had collected three results
C26_Witness ==
    /\ pc = "done"
    /\ engineBody.kind = "incremental"
    /\ drainFails
    /\ Len(results) = 3
    /\ response.error.kind = "drain"

\* ------------------------------------------------------------------ C27

\* C27: parseValue yields the handle's promise exactly for an Upload
\* instance and raises 'Upload value invalid.' for every other value, never
\* handing back a value; parseLiteral and serialize raise for every input.
C27_InvalidValueRaises ==
    /\ call.fn = "parseValue"
          => IF call.input.kind = "upload"
             THEN /\ call.outcome.kind = "returned"
                  /\ call.outcome.type = "promise"
                  /\ call.outcome.file = call.input.file
             ELSE /\ call.outcome.kind = "raised"
                  /\ call.outcome.message = "Upload value invalid."
    /\ call.fn \in {"parseLiteral", "serialize"} => call.outcome.kind = "raised"

\* ------------------------------------------------------------------ C28

\* C28: sanitizeAndValidateJSON returns the parsed value exactly when the
\* input parses to an object that is not null, and raises the one error
\* 'Invalid JSON input' for unparseable text, an absent (null) input, a JSON
\* primitive and JSON null.
C28_ObjectOrInvalidInput ==
    call.fn = "sanitizeAndValidateJSON"
        => IF call.input.kind = "object"
           THEN /\ call.outcome.ok
                /\ call.outcome.error = NoErr
                /\ call.outcome.value.map = call.input.map
                /\ call.outcome.value.ops = call.input.ops
           ELSE /\ call.input.kind \in BadFieldKinds
                /\ ~call.outcome.ok
                /\ call.outcome.error = Err("json", "")

\* JSON null was refused with the error of unparseable text
C28_Witness ==
    /\ call.fn = "sanitizeAndValidateJSON"
    /\ call.input.kind = "jsonnull"
    /\ ~call.outcome.ok
    /\ call.outcome.error.kind = "json"

\* ------------------------------------------------------------------ C29

\* the positions of the file-valued entries of field name k
FilePositions(entries, k) ==
    {n \in DOMAIN entries : entries[n].isFile /\ entries[n].key = k}

\* C29: the mapping of extractFiles has a field name exactly when the form
\* data has a file-valued entry for it, and holds the last such entry;
\* entries that are not files are left out.
C29_LastFileEntryPerName ==
    call.fn = "extractFiles"
        => LET entries == call.input.entries
               out == call.outcome
           IN /\ DOMAIN out = {k \in FieldKeys : FilePositions(entries, k) # {}}
              /\ \A k \in DOMAIN out :
                    \E n \in FilePositions(entries, k) :
                        /\ \A m \in FilePositions(entries, k) : m <= n
                        /\ out[k] = entries[n].file

\* a text entry and two different files under one field name: the mapping
\* holds the second file, and nothing for the name that has only text
C29_Witness ==
    /\ call.fn = "extractFiles"
    /\ Len(call.input.entries) = 3
    /\ ~call.input.entries[1].isFile
    /\ call.input.entries[1].key # call.input.entries[2].key
    /\ call.input.entries[2].isFile
    /\ call.input.entries[3].isFile
    /\ call.input.entries[2].key = call.input.entries[3].key
    /\ call.input.entries[2].file # call.input.entries[3].file
    /\ DOMAIN call.outcome = {call.input.entries[3].key}
    /\ call.outcome[call.input.entries[3].key] = call.input.entries[3].file

====
